---- MODULE Spec2Model ----
(***************************************************************************)
(* Player tracking and camera control of the spectator bot.                *)
(*                                                                         *)
(* Two revisions of the bot module are modelled side by side; the          *)
(* variable rev says which one a behaviour runs:                           *)
(*   "bot"  src/bot/spectator-bot.js              (adaptive distance)      *)
(*   "cam"  src/unnamed/part_002, lines 300..685  (camera-mode revision)   *)
(*                                                                         *)
(* Time.  The program reads Date.now() and arms setTimeout/setInterval.    *)
(* The model keeps time relative to the present, in units of unit ms:      *)
(* a timer holds the delay left until it fires, and a variable that the    *)
(* program uses as a timestamp holds Date.now() - timestamp, saturating    *)
(* just above the largest value it is compared with.  Timers fire on       *)
(* time: the clock does not advance past a timer that is due.  Every       *)
(* event falls on a multiple of the unit, so "elapsed > c ms" is           *)
(* "elapsed units > c \div unit".                                          *)
(*                                                                         *)
(* Player names are the numbers 1..NumNames, ordered as the names sort.    *)
(*                                                                         *)
(* Three specifications share the actions:                                 *)
(*   Spec         tracking, timers, kicks and reconnects; every connection *)
(*                attempt succeeds                                         *)
(*   SpecSession  the session supervisor with failing attempts, device     *)
(*                code authentication and errors; nobody joins or leaves   *)
(*   SpecFollow   one session at the resolution of the rate limiter, with  *)
(*                players going in and out of range                        *)
(***************************************************************************)
EXTENDS Integers, Sequences, FiniteSets, TLC

\* ---------------------------------------------------------------- bounds
NumNames == 2
MaxBots == 2
MaxSpawnPending == 1
MaxFailing == 1
MaxSpeed == 1
\* CHECK_INTERVAL_MS, SWITCH_INTERVAL_MS and the update interval of the
\* follow timer come from the environment; the model runs a short
\* configuration, given in units.
CHECK_INTERVAL == 2
SWITCH_INTERVAL == 4
FOLLOW_UPDATE_INTERVAL == 2
CAMERA_UPDATE_INTERVAL == 1

\* ------------------------------------------------------ program constants
MAX_CONSECUTIVE_FAILURES == 3
RECONNECT_DELAY_MS == 10000
KICK_RETRY_MS == 30000
SPAWN_DELAY_MS == 2000
MIN_COMMAND_SPACING_MS == 500
RECENTRE_SPACING_MS == 3000
SHOWCASE_DURATION_MS == 10000
\* the clock resolutions: the spawn delay, which divides every timer delay
\* of the program, and the spacing of the rate limiter
COARSE_UNIT_MS == 2000
FINE_UNIT_MS == 500

VARIABLES
  rev, spectate, unit, locations, username, azureClientId,
  proc, isAuthenticating, consecutiveFailures, bots,
  timers, trackingInterval, followUpdateInterval, showcaseInterval,
  currentTarget, showcaseActive, showcaseIndex,
  lastPlayerListSignature, playerRotationIndex, lastCommandTime, overlay,
  loggedNames,
  botPlayers, entities, speed,
  ev, sinceSwitch, sinceMove, sinceFollow, sinceEnd,
  baseDistance, baseHeight, targetPlayer, blocks, shot

config == << rev, spectate, unit, locations, username, azureClientId >>
session == << proc, isAuthenticating, consecutiveFailures, bots >>
handles == << trackingInterval, followUpdateInterval, showcaseInterval >>
tracking == << currentTarget, showcaseActive, showcaseIndex,
               lastPlayerListSignature, playerRotationIndex, overlay,
               loggedNames >>
world == << botPlayers, entities, speed >>
history == << ev, sinceSwitch, sinceMove, sinceFollow, sinceEnd >>
camera == << baseDistance, baseHeight, targetPlayer, blocks, shot >>
vars == << config, session, timers, handles, tracking, lastCommandTime,
           world, history, camera >>

Units(ms) == ms \div unit

RECONNECT_DELAY == Units(RECONNECT_DELAY_MS)
KICK_RETRY_DELAY == Units(KICK_RETRY_MS)
SPAWN_DELAY == Units(SPAWN_DELAY_MS)
MIN_COMMAND_SPACING == Units(MIN_COMMAND_SPACING_MS)
RECENTRE_SPACING == Units(RECENTRE_SPACING_MS)
SHOWCASE_DURATION == Units(SHOWCASE_DURATION_MS)

\* The configured showcase locations are the sequence locations: for each
\* location its duration (ms), 0 where it configures none.  The camera-mode
\* revision reads it as SHOWCASE_LOCATIONS, spectator-bot.js as
\* showcaseLocations; the lists the two files ship with:
ShippedLocations == IF rev = "cam" THEN << 10000, 8000 >> ELSE << 0 >>

SHOWCASE_LOCATIONS == locations

showcaseLocations == locations

\* (showcaseIndex + 1) % 0
NaN == -1
\* the place goToShowcaseLocation goes to when no location is configured
DefaultSpot == -1

Names == 1..NumNames
None == 0
Observer == NumNames + 1
Null == 0

Min(a, b) == IF a < b THEN a ELSE b

\* saturation of the relative timestamps
CommandAgeCap == RECENTRE_SPACING + 1
GapCap == MIN_COMMAND_SPACING + 1
FollowAgeCap == RECENTRE_SPACING + 1
EndAgeCap == RECONNECT_DELAY
\* the time since the last switch is followed past the longest wait for a
\* rotation
SwitchAgeCap == SWITCH_INTERVAL + CHECK_INTERVAL + 1
\* the time since the last move is followed past the longest stay at a
\* showcase location where the grid is coarse
MoveAgeCap ==
  IF unit = COARSE_UNIT_MS THEN SHOWCASE_DURATION + 1 ELSE GapCap

\* -------------------------------------------------------- camera distance
MIN_FOLLOW_DISTANCE == 4
MAX_FOLLOW_DISTANCE == 15

\* the offsets calculateAdaptiveDistance samples around the player
offsets ==
  << << 0, 0, -3 >>, << 0, 0, -5 >>, << 0, 0, -8 >>,
     << 0, 2, -3 >>, << 0, 2, -5 >>, << 0, 2, -8 >>,
     << -3, 0, 0 >>, << 3, 0, 0 >>, << -3, 2, 0 >>, << 3, 2, 0 >>,
     << 0, 3, 0 >>, << 0, 5, 0 >>,
     << -2, 2, -2 >>, << 2, 2, -2 >>, << -2, 2, 2 >>, << 2, 2, 2 >>,
     << 0, -1, 0 >>, << 0, 4, 0 >>,
     << -1, 1, -4 >>, << 1, 1, -4 >>, << -2, 1, -6 >>, << 2, 1, -6 >>,
     << 0, 1, -10 >>, << -2, 2, -8 >>, << 2, 2, -8 >> >>

\* Distances and heights are fixed-point numbers, Scale to a block: the
\* solid ratio is a multiple of 1 / Len(offsets) and a command prints tenths.
Scale == 2 * Len(offsets)

Max(a, b) == IF a > b THEN a ELSE b

\* B[n] is bot.blockAt(pos.offset(dx, dy, dz)) for the n-th offset: a block
\* that is "solid" or "empty" (its boundingBox), "null" (no block), or
\* "throws".  solidBlockCount after the loop has seen the first n offsets:
\* variant for sensitivity analysis: whatever is not an empty block counts
solidBlockCountNotEmpty(B, n) ==
  Cardinality({i \in 1..n : B[i] # "empty"})

RECURSIVE solidBlockCount(_, _)
solidBlockCount(B, n) ==
  IF n = 0 THEN 0
  ELSE solidBlockCount(B, n - 1) + (IF B[n] = "solid" THEN 1 ELSE 0)

\* variant for sensitivity analysis: the surroundings take off only half
\* of the range
calculateAdaptiveDistanceHalf(player, B) ==
  IF ~player.entity THEN baseDistance
  ELSE LET count == solidBlockCount(B, Len(offsets))
           less == (count * (MAX_FOLLOW_DISTANCE - MIN_FOLLOW_DISTANCE) * Scale)
                     \div (2 * Len(offsets))
           distance == MAX_FOLLOW_DISTANCE * Scale - less
       IN  Max(MIN_FOLLOW_DISTANCE * Scale,
               Min(MAX_FOLLOW_DISTANCE * Scale, distance))

calculateAdaptiveDistance(player, B) ==
  IF ~player.entity THEN baseDistance
  ELSE LET count == solidBlockCount(B, Len(offsets))
           \* solidRatio * (MAX_FOLLOW_DISTANCE - MIN_FOLLOW_DISTANCE)
           less == (count * (MAX_FOLLOW_DISTANCE - MIN_FOLLOW_DISTANCE)
                      * Scale) \div Len(offsets)
           distance == MAX_FOLLOW_DISTANCE * Scale - less
       IN  Max(MIN_FOLLOW_DISTANCE * Scale,
               Min(MAX_FOLLOW_DISTANCE * Scale, distance))

\* x.toFixed(1): the nearest tenth
toFixed1(x) ==
  LET tenth == Scale \div 10
  IN  ((x + tenth \div 2) \div tenth) * tenth

\* the distance and height in the command updatePosition sends
followCommand(player, B) ==
  [distance |-> toFixed1(calculateAdaptiveDistance(player, B)),
   height |-> toFixed1(baseHeight)]

NoShot == [distance |-> 0, height |-> 0]

\* ------------------------------------------------------------ world view
\* bot.players, without the observer itself (the filter of the tracking tick)
Players == SelectSeq(botPlayers, LAMBDA p : p # None /\ p # Observer)

SeqToSet(s) == {s[i] : i \in 1..Len(s)}

\* names.sort().join(','): the sorted list of names stands for the joined
\* string (a user name holds no comma)
\* variant for sensitivity analysis: the names are joined as they come
SignatureUnsorted(P) == P

\* names.sort().join(','): user names hold no comma, so the joined string
\* is told apart exactly as the sorted sequence is
Signature(P) == SortSeq(P, LAMBDA a, b : a < b)

Remove(s, n) == SelectSeq(s, LAMBDA p : p # n)

\* ---------------------------------------------------------------- timers
\* A timer is [kind, id, left, period, who, age]: id tells the timers of a
\* kind apart, left is the delay until it fires, period is 0 for a
\* setTimeout, who is the player a follow timer was started for, age is
\* Date.now() - lastSwitchTime of a tracking timer's closure (saturating at
\* SWITCH_INTERVAL).  A handle variable holds the id of a timer of its kind.
OfKind(T, k) == {t \in T : t.kind = k}

\* a new timer object is none of the live ones
NewId(S, k) ==
  LET used == {t.id : t \in OfKind(S.timers, k)}
  IN  CHOOSE i \in 1..(Cardinality(used) + 1) :
        i \notin used /\ \A j \in 1..(i - 1) : j \in used

Timer(S, k, d, p, w) ==
  [kind |-> k, id |-> NewId(S, k), left |-> d, period |-> p, who |-> w,
   age |-> 0]

\* clearInterval(h): cancelling a timer that is no longer live does nothing
ClearInterval(T, k, h) == {t \in T : ~(t.kind = k /\ t.id = h)}

Due(k) == {t \in OfKind(timers, k) : t.left = 0}

\* ------------------------------------------------------- handler state
\* loggedNames is the set of names in the player-list line logged last,
\* logged says that the handler logged that line.
\* The module-level variables a handler reads and writes, threaded through
\* the functions it calls; cmd is the observer-moving command the handler
\* sent (at most one per handler), loc the showcase location it names (the
\* location's place in the list, from 1), switched says the tick chose a
\* target and reason why.
Cur ==
  [ timers |-> timers,
    trackingInterval |-> trackingInterval,
    followUpdateInterval |-> followUpdateInterval,
    showcaseInterval |-> showcaseInterval,
    currentTarget |-> currentTarget,
    showcaseActive |-> showcaseActive,
    showcaseIndex |-> showcaseIndex,
    lastPlayerListSignature |-> lastPlayerListSignature,
    playerRotationIndex |-> playerRotationIndex,
    lastCommandTime |-> lastCommandTime,
    overlay |-> overlay,
    loggedNames |-> loggedNames,
    logged |-> FALSE,
    cmd |-> "none",
    loc |-> 0,
    switched |-> FALSE,
    reason |-> "none" ]

Send(S, c) == [S EXCEPT !.cmd = c]

\* The text of the overlay file: 'Now following: <name>', or the showcase
\* location that is shown (DefaultSpot for 'Showcase: Spawn'); Unwritten
\* until the process writes it.
Unwritten == [text |-> "unwritten", of |-> 0]
NowFollowing(n) == [text |-> "following", of |-> n]
Showing(l) == [text |-> "showcase", of |-> l]

\* variant for sensitivity analysis: the write fails and is only logged
writeOverlayFails(S, text) == S

writeOverlay(S, text) == [S EXCEPT !.overlay = text]

\* setInterval(callback, p), its handle stored in the variable of its kind
SetInterval(S, k, p, w) ==
  LET t == Timer(S, k, p, p, w)
  IN  [S EXCEPT !.timers = @ \cup {t},
                !.trackingInterval = IF k = "tracking" THEN t.id ELSE @,
                !.followUpdateInterval = IF k = "follow" THEN t.id ELSE @,
                !.showcaseInterval = IF k = "showcase" THEN t.id ELSE @]

\* setTimeout(callback, d)
SetTimeout(S, k, d) == [S EXCEPT !.timers = @ \cup {Timer(S, k, d, 0, None)}]

\* calculateActivity of spectator-bot.js: the distance from the position
\* remembered by the call before plus twice the speed.  Nothing in that
\* file calls it, so lastActivity has no entry and the distance is 0.
calculateActivity(n) ==
  IF n \notin entities THEN 0
  ELSE LET distance == 0 IN distance + (speed[n] * 2)

\* ------------------------------------------------------- Follow Driver
\* variant for sensitivity analysis: a command exactly 500 ms after the last
updateCameraEager(S, player) ==
  IF S.currentTarget = None \/ S.currentTarget # player
  THEN [S EXCEPT !.timers = ClearInterval(@, "follow", S.followUpdateInterval)]
  ELSE IF player \notin entities
  THEN IF S.lastCommandTime > RECENTRE_SPACING
       THEN [Send(S, "recentre") EXCEPT !.lastCommandTime = 0]
       ELSE S
  ELSE IF S.lastCommandTime >= MIN_COMMAND_SPACING
       THEN [Send(S, "camera") EXCEPT !.lastCommandTime = 0]
       ELSE S

\* updateCamera of the camera-mode revision
updateCamera(S, player) ==
  IF S.currentTarget = None \/ S.currentTarget # player
  THEN [S EXCEPT !.timers = ClearInterval(@, "follow", S.followUpdateInterval)]
  ELSE IF player \notin entities
  THEN IF S.lastCommandTime > RECENTRE_SPACING
       THEN [Send(S, "recentre") EXCEPT !.lastCommandTime = 0]
       ELSE S
  ELSE IF S.lastCommandTime > MIN_COMMAND_SPACING
       THEN [Send(S, "camera") EXCEPT !.lastCommandTime = 0]
       ELSE S

\* updatePosition of spectator-bot.js
updatePosition(S, player) ==
  IF S.currentTarget = None \/ S.currentTarget # player
  THEN [S EXCEPT !.timers = ClearInterval(@, "follow", S.followUpdateInterval),
                 !.followUpdateInterval = Null]
  ELSE IF player \notin SeqToSet(botPlayers)
  THEN S
  ELSE Send(S, "behind")

\* variant for sensitivity analysis: USE_SPECTATE is not looked at
startContinuousFollowBotThirdPerson(S, player) ==
  LET S1 == [S EXCEPT
               !.timers = ClearInterval(@, "follow", S.followUpdateInterval),
               !.followUpdateInterval = Null]
  IN  SetInterval(updatePosition(S1, player), "follow",
                  FOLLOW_UPDATE_INTERVAL, player)

startContinuousFollowBot(S, player) ==
  LET S1 == [S EXCEPT
               !.timers = ClearInterval(@, "follow", S.followUpdateInterval),
               !.followUpdateInterval = Null]
  IN  IF spectate
      THEN Send(S1, "spectate")
      ELSE SetInterval(updatePosition(S1, player), "follow",
                       FOLLOW_UPDATE_INTERVAL, player)

startContinuousFollowCam(S, player) ==
  LET S1 == [S EXCEPT
               !.timers = ClearInterval(@, "follow", S.followUpdateInterval)]
  IN  IF spectate
      THEN Send(S1, "spectate")
      ELSE SetInterval(updateCamera(S1, player), "follow",
                       CAMERA_UPDATE_INTERVAL, player)

startContinuousFollow(S, player) ==
  IF rev = "bot" THEN startContinuousFollowBot(S, player)
                 ELSE startContinuousFollowCam(S, player)

\* --------------------------------------------------- Showcase Controller
\* showcaseBases of spectator-bot.js: one teleport, no timer
showcaseBases(S) ==
  IF S.showcaseActive THEN S
  ELSE LET S1 == [S EXCEPT !.showcaseActive = TRUE]
       IN  IF Len(showcaseLocations) = 0 THEN S1
           ELSE [Send(S1, "showcase") EXCEPT
                   !.loc = S1.showcaseIndex + 1,
                   !.showcaseIndex = (@ + 1) % Len(showcaseLocations)]

goToShowcaseLocation(S) ==
  LET l == IF Len(SHOWCASE_LOCATIONS) = 0 THEN DefaultSpot
           ELSE S.showcaseIndex + 1
  IN  Send([writeOverlay(S, Showing(l)) EXCEPT !.loc = l], "showcase")

\* SHOWCASE_LOCATIONS[showcaseIndex]?.duration || SHOWCASE_DURATION
Dwell(i) ==
  IF i + 1 \in 1..Len(SHOWCASE_LOCATIONS) /\ SHOWCASE_LOCATIONS[i + 1] # 0
  THEN Units(SHOWCASE_LOCATIONS[i + 1])
  ELSE SHOWCASE_DURATION

startShowcaseTour(S) ==
  IF S.showcaseActive THEN S
  ELSE LET S1 == goToShowcaseLocation(
                   [S EXCEPT !.showcaseActive = TRUE, !.showcaseIndex = 0])
       IN  SetInterval(S1, "showcase", Dwell(S1.showcaseIndex), None)

\* variant for sensitivity analysis: the showcase timer is not cancelled
stopShowcaseTourLeak(S) ==
  [S EXCEPT !.showcaseActive = FALSE, !.showcaseInterval = Null]

stopShowcaseTour(S) ==
  [S EXCEPT !.showcaseActive = FALSE,
            !.timers = ClearInterval(@, "showcase", S.showcaseInterval),
            !.showcaseInterval = Null]

\* ---------------------------------------------------- timer bookkeeping
clearAllIntervals(S) ==
  [S EXCEPT
     !.timers = ClearInterval(ClearInterval(ClearInterval(@,
                  "tracking", S.trackingInterval),
                  "follow", S.followUpdateInterval),
                  "showcase", S.showcaseInterval),
     !.trackingInterval = Null,
     !.followUpdateInterval = Null,
     !.showcaseInterval = Null]

\* the 'end' handler and startPlayerTracking of spectator-bot.js clear the
\* two handles that revision has
clearIntervalsBot(S) ==
  [S EXCEPT
     !.timers = ClearInterval(ClearInterval(@,
                  "tracking", S.trackingInterval),
                  "follow", S.followUpdateInterval),
     !.trackingInterval = Null,
     !.followUpdateInterval = Null]

clearIntervals(S) ==
  IF rev = "bot" THEN clearIntervalsBot(S) ELSE clearAllIntervals(S)

\* variant for sensitivity analysis: the old timers are left running
startPlayerTrackingKeep(S) ==
  SetInterval(S, "tracking", CHECK_INTERVAL, None)

\* variant for sensitivity analysis: the first tick comes without delay
startPlayerTrackingAtOnce(S) ==
  LET S1 == SetInterval(clearIntervals(S), "tracking", CHECK_INTERVAL, None)
  IN  [S1 EXCEPT !.timers = {IF t.kind = "tracking"
                             THEN [t EXCEPT !.left = 0] ELSE t : t \in @}]

\* startPlayerTracking: the new timer's closure has lastSwitchTime = now
startPlayerTracking(S) ==
  SetInterval(clearIntervals(S), "tracking", CHECK_INTERVAL, None)

\* ------------------------------------------------------ Target Selector
\* variant for sensitivity analysis: rotation one tick early
shouldSwitchEarly(S, P, age) ==
  \/ S.currentTarget = None
  \/ S.currentTarget \notin SeqToSet(P)
  \/ (age + CHECK_INTERVAL >= SWITCH_INTERVAL /\ Len(P) > 1)

\* variant for sensitivity analysis: a subject that left the list is kept
shouldSwitchStale(S, P, age) ==
  \/ S.currentTarget = None
  \/ (age >= SWITCH_INTERVAL /\ Len(P) > 1)

\* the switch decision of the tracking tick; age is now - lastSwitchTime
shouldSwitch(S, P, age) ==
  \/ S.currentTarget = None
  \/ S.currentTarget \notin SeqToSet(P)
  \/ (age >= SWITCH_INTERVAL /\ Len(P) > 1)

\* the reason the tick notes for its decision
Reason(S, P, age) ==
  IF S.currentTarget = None THEN "first target"
  ELSE IF S.currentTarget \notin SeqToSet(P) THEN "target left"
  ELSE IF age >= SWITCH_INTERVAL /\ Len(P) > 1 THEN "rotation"
  ELSE "none"

\* variant for sensitivity analysis: the Follow Driver is started for the
\* next subject but the first of the list is recorded as current
switchTargetMisrecorded(S, P, t) ==
  LET idx == (S.playerRotationIndex + 1) % Len(P)
      newTarget == P[idx + 1]
      S1 == [S EXCEPT !.playerRotationIndex = idx,
                      !.currentTarget = newTarget,
                      !.switched = TRUE,
                      !.reason = Reason(S, P, t.age),
                      !.timers = (@ \ {t}) \cup {[t EXCEPT !.age = 0]}]
  IN  [startContinuousFollow(S1, newTarget) EXCEPT !.currentTarget = P[1]]

\* variant for sensitivity analysis: every switch goes to the head of the
\* list
switchTargetToHead(S, P, t) ==
  LET idx == 0
      newTarget == P[idx + 1]
      S1 == [S EXCEPT !.playerRotationIndex = idx,
                      !.currentTarget = newTarget,
                      !.switched = TRUE,
                      !.reason = Reason(S, P, t.age),
                      !.timers = (@ \ {t}) \cup {[t EXCEPT !.age = 0]}]
      S2 == IF rev = "cam" THEN writeOverlay(S1, NowFollowing(newTarget))
            ELSE S1
  IN  startContinuousFollow(S2, newTarget)

\* the switch itself: round robin by position, lastSwitchTime = now, follow
switchTarget(S, P, t) ==
  LET idx == (S.playerRotationIndex + 1) % Len(P)
      newTarget == P[idx + 1]
      S1 == [S EXCEPT !.playerRotationIndex = idx,
                      !.currentTarget = newTarget,
                      !.switched = TRUE,
                      !.reason = Reason(S, P, t.age),
                      !.timers = (@ \ {t}) \cup {[t EXCEPT !.age = 0]}]
      S2 == IF rev = "cam" THEN writeOverlay(S1, NowFollowing(newTarget))
            ELSE S1
  IN  startContinuousFollow(S2, newTarget)

\* variant for sensitivity analysis: the subject is cleared and its follow
\* timer left running
noPlayersBotKeepTimer(S) ==
  LET S1 == IF S.currentTarget # None
            THEN [S EXCEPT !.currentTarget = None]
            ELSE S
  IN  IF ~S1.showcaseActive THEN showcaseBases(S1) ELSE S1

noPlayersBot(S) ==
  LET S1 == IF S.currentTarget # None
            THEN [S EXCEPT
                    !.currentTarget = None,
                    !.timers = ClearInterval(@, "follow",
                                             S.followUpdateInterval),
                    !.followUpdateInterval = Null]
            ELSE S
  IN  IF ~S1.showcaseActive THEN showcaseBases(S1) ELSE S1

noPlayersCam(S) ==
  IF S.currentTarget # None \/ ~S.showcaseActive
  THEN startShowcaseTour(
         [S EXCEPT !.currentTarget = None,
                   !.timers = ClearInterval(@, "follow",
                                            S.followUpdateInterval),
                   !.followUpdateInterval = Null])
  ELSE S

\* variant for sensitivity analysis: showcase mode is left on
exitShowcaseKeep(S) == S

exitShowcase(S) ==
  IF ~S.showcaseActive THEN S
  ELSE IF rev = "bot" THEN [S EXCEPT !.showcaseActive = FALSE]
  ELSE stopShowcaseTour(S)

playersOnline(S, P, t) ==
  LET S1 == exitShowcase(S)
  IN  IF shouldSwitch(S1, P, t.age) THEN switchTarget(S1, P, t) ELSE S1

\* the callback of trackingInterval
trackingTick(S, t) ==
  LET P == Players
      signature == Signature(P)
      S1 == IF signature # S.lastPlayerListSignature
            THEN [S EXCEPT !.lastPlayerListSignature = signature,
                           !.logged = TRUE,
                           !.loggedNames = SeqToSet(P)]
            ELSE S
  IN  IF Len(P) = 0
      THEN (IF rev = "bot" THEN noPlayersBot(S1) ELSE noPlayersCam(S1))
      ELSE playersOnline(S1, P, t)

\* the callback of the follow timer started for t.who
followTick(S, t) ==
  IF rev = "bot" THEN updatePosition(S, t.who) ELSE updateCamera(S, t.who)

\* the callback of showcaseInterval (camera-mode revision)
showcaseTick(S) ==
  goToShowcaseLocation(
    [S EXCEPT !.showcaseIndex =
       IF Len(SHOWCASE_LOCATIONS) = 0 THEN NaN
       ELSE (@ + 1) % Len(SHOWCASE_LOCATIONS)])

\* after its callback a setInterval timer that was not cleared runs again
AfterCallback(S, t) ==
  [S EXCEPT !.timers =
     {IF u.kind = t.kind /\ u.id = t.id THEN [u EXCEPT !.left = u.period]
      ELSE u : u \in @}]

\* ------------------------------------------------------------- sessions
\* An element of bots is one mineflayer bot: "connecting" while createBot
\* waits for its login, "live" once setupBot installed the handlers,
\* "kicked" between its 'kicked' and its 'end' event, "ended" while the
\* variable bot still refers to it.  origin is the createBot call that made
\* it, cur says that the variable bot refers to it.
Bots == 1..Len(bots)

NewBot(origin) == [st |-> "connecting", origin |-> origin, cur |-> FALSE]

Drop(s, b) == [i \in 1..(Len(s) - 1) |-> IF i < b THEN s[i] ELSE s[i + 1]]

\* sessions open or about to be opened
Potential ==
  Cardinality({b \in Bots : bots[b].st \in {"connecting", "live", "kicked"}})
  + Cardinality(OfKind(timers, "reconnect") \cup OfKind(timers, "kickRetry"))

Alive == proc = "running"

FollowCmds == {"camera", "recentre", "behind", "spectate"}

Ev(n, c, l, sw, r) ==
  [name |-> n, cmd |-> c, loc |-> l, switched |-> sw, reason |-> r,
   logged |-> FALSE]

\* the handler leaves the module-level variables as S says
Apply(S, n) ==
  /\ timers' = S.timers
  /\ trackingInterval' = S.trackingInterval
  /\ followUpdateInterval' = S.followUpdateInterval
  /\ showcaseInterval' = S.showcaseInterval
  /\ currentTarget' = S.currentTarget
  /\ showcaseActive' = S.showcaseActive
  /\ showcaseIndex' = S.showcaseIndex
  /\ lastPlayerListSignature' = S.lastPlayerListSignature
  /\ playerRotationIndex' = S.playerRotationIndex
  /\ lastCommandTime' = S.lastCommandTime
  /\ overlay' = S.overlay
  /\ loggedNames' = S.loggedNames
  /\ ev' = [Ev(n, S.cmd, S.loc, S.switched, S.reason) EXCEPT
              !.logged = S.logged]
  /\ sinceMove' = IF S.cmd # "none" THEN 0 ELSE sinceMove
  /\ sinceFollow' = IF S.cmd \in FollowCmds THEN 0 ELSE sinceFollow
  /\ sinceSwitch' = IF S.switched THEN 0 ELSE sinceSwitch

\* process.exit: nothing of the process runs any more
Exit(S) == [S EXCEPT !.timers = {}]

Quiet(n) ==
  /\ ev' = Ev(n, "none", 0, FALSE, "none")
  /\ UNCHANGED << sinceSwitch, sinceMove, sinceFollow >>

\* the module-level variables as their declarations leave them
ModuleState(u, P) ==
  /\ rev \in {"bot", "cam"}
  /\ spectate \in BOOLEAN
  /\ unit = u
  /\ isAuthenticating = FALSE
  /\ consecutiveFailures = 0
  /\ timers = {}
  /\ trackingInterval = Null
  /\ followUpdateInterval = Null
  /\ showcaseInterval = Null
  /\ currentTarget = None
  /\ showcaseActive = FALSE
  /\ showcaseIndex = 0
  /\ lastPlayerListSignature = << >>
  /\ playerRotationIndex = 0
  /\ lastCommandTime = CommandAgeCap
  /\ overlay = Unwritten
  /\ loggedNames = {}
  /\ botPlayers = << Observer >> \o P
  /\ entities = SeqToSet(P)
  /\ speed = [n \in Names |-> 0]
  /\ ev = Ev("init", "none", 0, FALSE, "none")
  /\ sinceSwitch = SwitchAgeCap
  /\ sinceMove = MoveAgeCap
  /\ sinceFollow = FollowAgeCap
  /\ sinceEnd = EndAgeCap

\* the module has been loaded with its required configuration set, and the
\* first createBot() is waiting
Start(u, P) ==
  /\ ModuleState(u, P)
  /\ username = TRUE /\ azureClientId = TRUE
  /\ proc = "running"
  /\ bots = << NewBot("startup") >>

\* the camera configuration left at its defaults (FOLLOW_DISTANCE 8,
\* FOLLOW_HEIGHT 3), open surroundings, no distance computed yet
CameraIdle ==
  /\ baseDistance = 8 * Scale
  /\ baseHeight = 3 * Scale
  /\ targetPlayer = [entity |-> TRUE]
  /\ blocks = [i \in 1..Len(offsets) |-> "empty"]
  /\ shot = NoShot

\* the configuration the files ship with
AsShipped == locations = ShippedLocations /\ CameraIdle

Init == Start(COARSE_UNIT_MS, << >>) /\ AsShipped

\* onMsaCode: a device code is shown for a connecting bot
MsaCode(b) ==
  /\ Alive
  /\ bots[b].st = "connecting"
  /\ isAuthenticating' = TRUE
  /\ Quiet("env")
  /\ UNCHANGED << config, camera, proc, consecutiveFailures, bots, timers,
                  handles, tracking, lastCommandTime, world, sinceEnd >>

\* 'login' resolves createBot; the caller's then-branch adopts the bot
\* (bot = createdBot) and, except after a kick, clears the failure count
Login(b) ==
  /\ Alive
  /\ bots[b].st = "connecting"
  /\ isAuthenticating' = FALSE
  /\ consecutiveFailures' =
       IF bots[b].origin = "kick" THEN consecutiveFailures ELSE 0
  /\ bots' = SelectSeq(
       [i \in Bots |->
          IF i = b THEN [bots[b] EXCEPT !.st = "live", !.cur = TRUE]
          ELSE [bots[i] EXCEPT !.cur = FALSE]],
       LAMBDA x : x.st # "ended")
  /\ Quiet("env")
  /\ UNCHANGED << config, camera, proc, timers, handles, tracking, lastCommandTime,
                  world, sinceEnd >>

\* variant for sensitivity analysis: createBot does not look at the
\* client id
StartupOutcomeUnchecked == IF ~username THEN "exited" ELSE "running"

\* the configuration checks on the way to the first session: the module
\* exits without MINECRAFT_USERNAME, createBot exits without
\* AZURE_CLIENT_ID, both with status 1
StartupOutcome ==
  IF ~username THEN "exited"
  ELSE IF ~azureClientId THEN "exited"
  ELSE "running"

\* node loads the module: the checks, then the first mineflayer.createBot
Load ==
  /\ proc = "loading"
  /\ proc' = StartupOutcome
  /\ bots' = IF StartupOutcome = "running" THEN << NewBot("startup") >>
             ELSE bots
  /\ Quiet("load")
  /\ UNCHANGED << config, camera, isAuthenticating, consecutiveFailures,
                  timers, handles, tracking, lastCommandTime, world,
                  sinceEnd >>

\* variant for sensitivity analysis: the threshold is passed, not reached
TooManyFailuresLate(n) == n > MAX_CONSECUTIVE_FAILURES

\* consecutiveFailures >= MAX_CONSECUTIVE_FAILURES (the literal 3 in the
\* camera-mode revision)
TooManyFailures(n) == n >= MAX_CONSECUTIVE_FAILURES

\* the catch-branch of the createBot call that made the rejected bot:
\* the new failure count and whether the process exits
Rejected(origin) ==
  IF rev = "cam"
  THEN [failures |-> consecutiveFailures, exit |-> TRUE]
  ELSE IF origin = "startup"
  THEN [failures |-> consecutiveFailures + 1, exit |-> TRUE]
  ELSE IF origin = "end"
  THEN [failures |-> consecutiveFailures + 1,
        exit |-> TooManyFailures(consecutiveFailures + 1)]
  ELSE [failures |-> consecutiveFailures, exit |-> FALSE]

\* 'error' of a bot that has not logged in: ignored while authenticating,
\* otherwise createBot rejects
ConnectError(b) ==
  /\ Alive
  /\ bots[b].st = "connecting"
  /\ IF isAuthenticating
     THEN /\ Quiet("authError")
          /\ UNCHANGED << proc, consecutiveFailures, bots, timers >>
     ELSE LET r == Rejected(bots[b].origin)
          IN  /\ consecutiveFailures' = r.failures
              /\ proc' = IF r.exit THEN "exited" ELSE proc
              /\ timers' = IF r.exit THEN {} ELSE timers
              /\ bots' = Drop(bots, b)
              /\ Quiet("connectFailed")
  /\ UNCHANGED << config, camera, isAuthenticating, handles, tracking,
                  lastCommandTime, world, sinceEnd >>

\* 'spawn': startPlayerTracking is put off by two seconds
Spawn(b) ==
  /\ Alive
  /\ bots[b].st = "live"
  /\ Cardinality(OfKind(timers, "spawnDelay")) < MaxSpawnPending
  /\ timers' = SetTimeout(Cur, "spawnDelay", SPAWN_DELAY).timers
  /\ Quiet("env")
  /\ UNCHANGED << config, camera, session, handles, tracking, lastCommandTime,
                  world, sinceEnd >>

\* the delayed part of the 'spawn' handler
SpawnDelayFire ==
  /\ Alive
  /\ \E t \in Due("spawnDelay") :
       Apply(startPlayerTracking([Cur EXCEPT !.timers = @ \ {t}]),
             "startTracking")
  /\ UNCHANGED << config, camera, session, world, sinceEnd >>

\* 'error' of a bot whose handlers setupBot installed
BotError(b) ==
  /\ Alive
  /\ bots[b].st = "live"
  /\ consecutiveFailures' = consecutiveFailures + 1
  /\ IF TooManyFailures(consecutiveFailures + 1)
     THEN proc' = "exited" /\ timers' = {}
     ELSE UNCHANGED << proc, timers >>
  /\ Quiet("botError")
  /\ UNCHANGED << config, camera, isAuthenticating, bots, handles, tracking,
                  lastCommandTime, world, sinceEnd >>

\* 'kicked'; spectator-bot.js retries 30 s after a throttling kick.  The
\* server closes the connection with the kick, so 'end' follows at once.
Kicked(b, throttled) ==
  /\ Alive
  /\ bots[b].st = "live"
  /\ bots' = [bots EXCEPT ![b].st = "kicked"]
  /\ IF rev = "bot" /\ throttled
     THEN /\ Potential < MaxBots
          /\ timers' = SetTimeout(Cur, "kickRetry", KICK_RETRY_DELAY).timers
     ELSE UNCHANGED timers
  /\ Quiet("env")
  /\ UNCHANGED << config, camera, proc, isAuthenticating, consecutiveFailures,
                  handles, tracking, lastCommandTime, world, sinceEnd >>

\* what the 'end' handler does once it has cancelled the timers
EndOutcome ==
  IF isAuthenticating THEN "return"
  ELSE IF TooManyFailures(consecutiveFailures) THEN "exit"
  ELSE "reconnect"

\* 'end': cancel the timers, then reconnect in 10 s unless authenticating
End(b) ==
  /\ Alive
  /\ bots[b].st \in {"live", "kicked"}
  /\ bots' = IF bots[b].cur THEN [bots EXCEPT ![b].st = "ended"]
             ELSE Drop(bots, b)
  /\ LET S == clearIntervals(Cur)
     IN  CASE EndOutcome = "return" ->
                Apply(S, "end") /\ UNCHANGED << proc, sinceEnd >>
           [] EndOutcome = "exit" ->
                Apply(Exit(S), "end") /\ proc' = "exited" /\ UNCHANGED sinceEnd
           [] EndOutcome = "reconnect" ->
                /\ Apply(SetTimeout(S, "reconnect", RECONNECT_DELAY), "end")
                /\ sinceEnd' = 0
                /\ UNCHANGED proc
  /\ UNCHANGED << config, camera, isAuthenticating, consecutiveFailures, world >>

\* createBot called by the reconnect timer of 'end' or the retry of 'kicked'
CreateBot(k, origin) ==
  /\ Alive
  /\ \E t \in Due(k) : timers' = timers \ {t}
  /\ bots' = Append(bots, NewBot(origin))
  /\ Quiet("createBot")
  /\ UNCHANGED << config, camera, proc, isAuthenticating, consecutiveFailures,
                  handles, tracking, lastCommandTime, world, sinceEnd >>

ReconnectFire == CreateBot("reconnect", "end")

KickRetryFire == CreateBot("kickRetry", "kick")

TrackingTick ==
  /\ Alive
  /\ \E t \in Due("tracking") :
       Apply(AfterCallback(trackingTick(Cur, t), t), "tick")
  /\ UNCHANGED << config, camera, session, world, sinceEnd >>

FollowTick ==
  /\ Alive
  /\ \E t \in Due("follow") :
       Apply(AfterCallback(followTick(Cur, t), t), "follow")
  /\ UNCHANGED << config, camera, session, world, sinceEnd >>

ShowcaseTick ==
  /\ Alive
  /\ \E t \in Due("showcase") :
       Apply(AfterCallback(showcaseTick(Cur), t), "showcase")
  /\ UNCHANGED << config, camera, session, world, sinceEnd >>

\* one unit of time passes
Tick ==
  /\ Alive
  /\ \A t \in timers : t.left > 0
  /\ \A b \in Bots : bots[b].st # "kicked"
  /\ timers' = {[t EXCEPT !.left = @ - 1,
                          !.age = Min(@ + 1, SWITCH_INTERVAL)] : t \in timers}
  /\ lastCommandTime' = Min(lastCommandTime + 1, CommandAgeCap)
  /\ sinceSwitch' = Min(sinceSwitch + 1, SwitchAgeCap)
  /\ sinceMove' = Min(sinceMove + 1, MoveAgeCap)
  /\ sinceFollow' = Min(sinceFollow + 1, FollowAgeCap)
  /\ sinceEnd' = Min(sinceEnd + 1, EndAgeCap)
  /\ ev' = Ev("env", "none", 0, FALSE, "none")
  /\ UNCHANGED << config, camera, session, handles, tracking, world >>

\* variant for sensitivity analysis: the signal handler cancels nothing
shutdownClearNothing(S) == S

\* the cancellations of the SIGINT/SIGTERM handler: spectator-bot.js clears
\* its two timers and leaves the handles, the camera-mode revision calls
\* clearAllIntervals
shutdownClear(S) ==
  IF rev = "bot"
  THEN [S EXCEPT !.timers = ClearInterval(ClearInterval(@,
                    "tracking", S.trackingInterval),
                    "follow", S.followUpdateInterval)]
  ELSE clearAllIntervals(S)

\* SIGINT or SIGTERM: cancel, bot.quit() if bot is set, process.exit(0).
\* reason notes whether a tracking, follow or showcase timer was still live
\* when bot.quit() was reached.
Shutdown ==
  /\ Alive
  /\ LET S1 == shutdownClear(Cur)
         left == OfKind(S1.timers, "tracking") \cup OfKind(S1.timers, "follow")
                   \cup OfKind(S1.timers, "showcase")
     IN  Apply(Exit([S1 EXCEPT !.reason = IF left = {} THEN "cancelled"
                                         ELSE "leftover"]), "shutdown")
  /\ bots' = [b \in Bots |->
               IF bots[b].cur /\ bots[b].st \in {"live", "kicked"}
               THEN [bots[b] EXCEPT !.st = "ended"] ELSE bots[b]]
  /\ proc' = "stopped"
  /\ UNCHANGED << config, camera, isAuthenticating, consecutiveFailures,
                  world, sinceEnd >>

\* ----------------------------------------------------------------- world
Connected == \E b \in Bots : bots[b].st = "live"

Join(n) ==
  /\ Alive /\ Connected
  /\ n \notin SeqToSet(botPlayers)
  /\ botPlayers' = Append(botPlayers, n)
  /\ Quiet("env")
  /\ UNCHANGED << config, camera, session, timers, handles, tracking,
                  lastCommandTime, entities, speed, sinceEnd >>

Leave(n) ==
  /\ Alive /\ Connected
  /\ n \in SeqToSet(botPlayers)
  /\ botPlayers' = Remove(botPlayers, n)
  /\ entities' = entities \ {n}
  /\ speed' = [speed EXCEPT ![n] = 0]
  /\ Quiet("env")
  /\ UNCHANGED << config, camera, session, timers, handles, tracking,
                  lastCommandTime, sinceEnd >>

\* a player's entity comes into or goes out of the observer's range
InRange(n) ==
  /\ Alive /\ Connected
  /\ n \in SeqToSet(botPlayers) \ entities
  /\ entities' = entities \cup {n}
  /\ Quiet("env")
  /\ UNCHANGED << config, camera, session, timers, handles, tracking,
                  lastCommandTime, botPlayers, speed, sinceEnd >>

OutOfRange(n) ==
  /\ Alive /\ Connected
  /\ n \in entities
  /\ entities' = entities \ {n}
  /\ speed' = [speed EXCEPT ![n] = 0]
  /\ Quiet("env")
  /\ UNCHANGED << config, camera, session, timers, handles, tracking,
                  lastCommandTime, botPlayers, sinceEnd >>

\* a player in range starts or stops moving: entity.velocity changes
Move(n) ==
  /\ Alive /\ Connected
  /\ n \in entities
  /\ \E v \in 0..MaxSpeed : v # speed[n] /\ speed' = [speed EXCEPT ![n] = v]
  /\ Quiet("env")
  /\ UNCHANGED << config, camera, session, timers, handles, tracking,
                  lastCommandTime, botPlayers, entities, sinceEnd >>

\* ------------------------------------------------------- specifications
Timed ==
  \/ SpawnDelayFire
  \/ TrackingTick
  \/ FollowTick
  \/ ShowcaseTick
  \/ Tick

Next ==
  \/ \E b \in Bots : Login(b)
  \/ \E b \in Bots : Spawn(b)
  \/ \E b \in Bots, throttled \in BOOLEAN : Kicked(b, throttled)
  \/ \E b \in Bots : End(b)
  \/ ReconnectFire
  \/ KickRetryFire
  \/ Timed
  \/ \E n \in Names : Join(n)
  \/ \E n \in Names : Leave(n)

Spec == Init /\ [][Next]_vars

\* the session supervisor: attempts fail, device codes are shown, sessions
\* report errors; the server is empty or has one player who stays
InitSession ==
  /\ \E P \in {<< >>, << 1 >>} : Start(COARSE_UNIT_MS, P)
  /\ AsShipped

NextSession ==
  \/ \E b \in Bots : MsaCode(b)
  \/ \E b \in Bots : Login(b)
  \/ \E b \in Bots : ConnectError(b)
  \/ \E b \in Bots : Spawn(b)
  \/ \E b \in Bots : BotError(b)
  \/ \E b \in Bots, throttled \in BOOLEAN : Kicked(b, throttled)
  \/ \E b \in Bots : End(b)
  \/ ReconnectFire
  \/ KickRetryFire
  \/ Timed

SpecSession == InitSession /\ [][NextSession]_vars

\* one session at the resolution of the rate limiter
InitFollow == Start(FINE_UNIT_MS, << >>) /\ AsShipped

NextFollow ==
  \/ \E b \in Bots : Login(b)
  \/ \E b \in Bots : Spawn(b)
  \/ Timed
  \/ \E n \in Names : Join(n)
  \/ \E n \in Names : Leave(n)
  \/ \E n \in Names : InRange(n)
  \/ \E n \in Names : OutOfRange(n)

SpecFollow == InitFollow /\ [][NextFollow]_vars

\* the process from its start, with or without its required configuration
InitLifecycle ==
  /\ ModuleState(COARSE_UNIT_MS, << >>)
  /\ username \in BOOLEAN /\ azureClientId \in BOOLEAN
  /\ proc = "loading"
  /\ bots = << >>
  /\ AsShipped

NextLifecycle ==
  \/ Load
  \/ \E b \in Bots : Login(b)
  \/ \E b \in Bots : Spawn(b)
  \/ Timed
  \/ \E n \in Names : Join(n)
  \/ \E n \in Names : Leave(n)
  \/ Shutdown

SpecLifecycle == InitLifecycle /\ [][NextLifecycle]_vars

\* one session that stays up with two players who stay online
InitRotation == Start(COARSE_UNIT_MS, << 1, 2 >>) /\ AsShipped

NextRotation ==
  \/ \E b \in Bots : Login(b)
  \/ \E b \in Bots : Spawn(b)
  \/ SpawnDelayFire
  \/ TrackingTick
  \/ FollowTick
  \/ Tick
  \/ \E n \in Names : InRange(n)
  \/ \E n \in Names : OutOfRange(n)

SpecRotation == InitRotation /\ [][NextRotation]_vars

\* a session that is lost once while a player is followed and is
\* established again; the players stay online
InitReconnect ==
  /\ \E P \in {<< 1 >>, << 1, 2 >>} : Start(COARSE_UNIT_MS, P)
  /\ AsShipped

\* the 'spawn' of a session whose tracking loop has not been armed
FirstSpawn(b) ==
  /\ trackingInterval = Null
  /\ OfKind(timers, "spawnDelay") = {}
  /\ Spawn(b)

\* the first session ends while a player is followed
EndWhileFollowing(b) ==
  /\ bots[b].origin = "startup"
  /\ currentTarget # None
  /\ End(b)

NextReconnect ==
  \/ \E b \in Bots : Login(b)
  \/ \E b \in Bots : FirstSpawn(b)
  \/ \E b \in Bots : EndWhileFollowing(b)
  \/ ReconnectFire
  \/ SpawnDelayFire
  \/ TrackingTick
  \/ FollowTick
  \/ Tick

\* the event loop runs every timer that is due and time goes on; the server
\* accepts the reconnecting observer and spawns it
FairReconnect ==
  /\ WF_vars(\E b \in Bots : Login(b))
  /\ WF_vars(\E b \in Bots : FirstSpawn(b))
  /\ WF_vars(ReconnectFire)
  /\ WF_vars(SpawnDelayFire)
  /\ WF_vars(TrackingTick)
  /\ WF_vars(FollowTick)
  /\ WF_vars(Tick)

SpecReconnect == InitReconnect /\ [][NextReconnect]_vars /\ FairReconnect

\* one session that stays up with every name online, in a list that does
\* not change
AllNames == [i \in 1..NumNames |-> i]

InitRoundRobin == Start(COARSE_UNIT_MS, AllNames) /\ AsShipped

SpecRoundRobin == InitRoundRobin /\ [][NextRotation]_vars

\* one session with players that come, go and move about
InitActivity == Start(COARSE_UNIT_MS, << >>) /\ AsShipped

NextActivity ==
  \/ \E b \in Bots : Login(b)
  \/ \E b \in Bots : Spawn(b)
  \/ Timed
  \/ \E n \in Names : Join(n)
  \/ \E n \in Names : Leave(n)
  \/ \E n \in Names : InRange(n)
  \/ \E n \in Names : OutOfRange(n)
  \/ \E n \in Names : Move(n)

SpecActivity == InitActivity /\ [][NextActivity]_vars

\* one session over configured lists of showcase locations: none, one
\* without a duration, the two of the camera-mode revision, and two of
\* which the second has no duration
LocationLists == {<< >>, << 0 >>, << 10000, 8000 >>, << 4000, 0 >>}

InitShowcase ==
  /\ Start(COARSE_UNIT_MS, << >>)
  /\ locations \in LocationLists
  /\ CameraIdle

NextShowcase ==
  \/ \E b \in Bots : Login(b)
  \/ \E b \in Bots : Spawn(b)
  \/ Timed
  \/ \E n \in Names : Join(n)
  \/ \E n \in Names : Leave(n)

SpecShowcase == InitShowcase /\ [][NextShowcase]_vars

\* the camera distance of the third-person follow of spectator-bot.js, over
\* configurations and surroundings
BaseDistances == {2, 8, 20}
BaseHeights == {1, 3}

\* surroundings in which the first s sampled offsets are solid, the next n
\* have no block, for the next t the query throws, and the rest are empty
Surroundings(s, n, t) ==
  [i \in 1..Len(offsets) |->
     IF i <= s THEN "solid"
     ELSE IF i <= s + n THEN "null"
     ELSE IF i <= s + n + t THEN "throws"
     ELSE "empty"]

InitCamera ==
  /\ Start(FINE_UNIT_MS, << >>)
  /\ rev = "bot" /\ ~spectate
  /\ locations = ShippedLocations
  /\ baseDistance \in {d * Scale : d \in BaseDistances}
  /\ baseHeight \in {h * Scale : h \in BaseHeights}
  /\ targetPlayer \in [entity : BOOLEAN]
  /\ \E s \in 0..Len(offsets), n \in 0..MaxFailing, t \in 0..MaxFailing :
       /\ s + n + t <= Len(offsets)
       /\ blocks = Surroundings(s, n, t)
  /\ shot = NoShot

\* the part of updatePosition that builds the command for the player found
FollowUpdate ==
  /\ shot' = followCommand(targetPlayer, blocks)
  /\ UNCHANGED << config, session, timers, handles, tracking,
                  lastCommandTime, world, history, baseDistance, baseHeight,
                  targetPlayer, blocks >>

NextCamera == FollowUpdate

SpecCamera == InitCamera /\ [][NextCamera]_vars

\* ---------------------------------------------------------------- claims
\* a session opened by the reconnect of an 'end' handler is up
Reconnected ==
  \E b \in Bots : bots[b].st = "live" /\ bots[b].origin = "end"

HandleOf(k) ==
  CASE k = "tracking" -> trackingInterval
    [] k = "follow" -> followUpdateInterval
    [] k = "showcase" -> showcaseInterval

LoopKinds == {"tracking", "follow", "showcase"}

\* C1: showcase mode is never active while a current subject is set, also
\* after reconnects.
C1_NeverFollowingAndShowcase == ~(showcaseActive /\ currentTarget # None)

\* a tick of a reconnected session chose a subject, in the revision whose
\* 'end' handler leaves showcaseActive as it was
C1_Witness ==
  /\ Reconnected
  /\ rev = "bot"
  /\ ev.name = "tick" /\ ev.reason = "first target"
  /\ currentTarget # None /\ ~showcaseActive

\* C2: a tracking tick that sees players switches only if there is no
\* current subject, or the current subject is not in the list, or the time
\* since the last switch is at least SWITCH_INTERVAL and the list has more
\* than one subject; a single subject that stays is never switched away from
\* and the Follow Driver is not invoked for it again.
C2_SwitchOnlyWhenDue ==
  [][ev'.name = "tick" /\ Len(Players) > 0 =>
        /\ ev'.switched =>
              \/ currentTarget = None
              \/ currentTarget \notin SeqToSet(Players)
              \/ (sinceSwitch >= SWITCH_INTERVAL /\ Len(Players) > 1)
        /\ Len(Players) = 1 /\ currentTarget = Players[1] =>
              /\ ~ev'.switched
              /\ currentTarget' = currentTarget
              /\ ev'.cmd = "none"
              /\ OfKind(timers', "follow") \subseteq OfKind(timers, "follow")
     ]_vars

\* a rotation between two subjects has happened
C2_Witness ==
  /\ ev.name = "tick" /\ ev.switched /\ ev.reason = "rotation"
  /\ Len(Players) = 2

\* C3: at most one tracking timer, one follow timer and one showcase timer
\* is live, and it is the one its handle variable refers to, so that the
\* cancellation before a new timer is created reaches every timer started
\* before; a handle that is set refers to a live timer, so that no timer is
\* cancelled twice.
C3_OneTimerPerKind ==
  \A k \in LoopKinds :
    /\ Cardinality(OfKind(timers, k)) <= 1
    /\ \A t \in OfKind(timers, k) : t.id = HandleOf(k)
    /\ HandleOf(k) # Null => \E t \in OfKind(timers, k) : t.id = HandleOf(k)

\* the tracking loop and a follow timer run again in a reconnected session
C3_Witness ==
  /\ Reconnected
  /\ ev.name = "tick"
  /\ Cardinality(OfKind(timers, "tracking")) = 1
  /\ Cardinality(OfKind(timers, "follow")) = 1

\* C4: a connection failure that leaves the failure count below the
\* threshold is retried after the backoff: when the failure has been
\* handled the process is running and a reconnect timer is pending.  It
\* covers the first attempt and a failed reconnect.
C4_FailureBelowThresholdRetried ==
  ev.name = "connectFailed" /\ consecutiveFailures < MAX_CONSECUTIVE_FAILURES
    => proc = "running" /\ OfKind(timers, "reconnect") # {}

\* C5: once the failure count has reached 3 the process has terminated: no
\* reconnect is scheduled and no timer is left to run.
C5_ThresholdIsFatal ==
  consecutiveFailures >= MAX_CONSECUTIVE_FAILURES
    => proc = "exited" /\ timers = {}

\* the third failure in a row ended the process
C5_Witness ==
  /\ ev.name \in {"botError", "connectFailed"}
  /\ consecutiveFailures = MAX_CONSECUTIVE_FAILURES
  /\ proc = "exited"

\* C6: while isAuthenticating is true, neither an 'end' event nor an 'error'
\* event (of a connection attempt or of a session) schedules a reconnect,
\* counts a failure or ends the process; 'end' still cancels the timers.
C6_AuthenticationSuppresses ==
  [][isAuthenticating
       /\ ev'.name \in {"end", "authError", "connectFailed", "botError"} =>
       /\ OfKind(timers', "reconnect") \subseteq OfKind(timers, "reconnect")
       /\ consecutiveFailures' = consecutiveFailures
       /\ proc' = "running"
       /\ ev'.name = "end" => \A k \in LoopKinds : OfKind(timers', k) = {}
     ]_vars

\* C7: no connection attempt starts earlier than 10 s after a clean 'end'
\* (one that armed the reconnect timer).
C7_NoAttemptBeforeBackoff ==
  ev.name = "createBot" => sinceEnd >= RECONNECT_DELAY

\* C8: when the tracking loop is armed again in a reconnected session there
\* is no current subject, showcase mode is off, and the rotation index and
\* the list signature have their initial values.
C8_TrackingStateResetOnReconnect ==
  ev.name = "startTracking" /\ Reconnected =>
    /\ currentTarget = None
    /\ ~showcaseActive
    /\ playerRotationIndex = 0
    /\ lastPlayerListSignature = << >>

\* C9: in third-person mode of the camera-mode revision a command of the
\* Follow Driver (camera transform or re-centre, the update right after a
\* switch included) comes more than 500 ms after the one before it, and
\* sets lastCommandTime to the time it is sent.
C9_FollowCommandsSpaced ==
  [][rev = "cam" /\ ~spectate /\ ev'.cmd \in {"camera", "recentre"} =>
       /\ sinceFollow > MIN_COMMAND_SPACING
       /\ lastCommandTime' = 0
     ]_vars

\* the update right after a switch sent a camera transform, the limiter
\* having let it through
C9_Witness ==
  /\ rev = "cam" /\ ~spectate
  /\ ev.name = "tick" /\ ev.reason = "rotation" /\ ev.cmd = "camera"
  /\ lastCommandTime = 0 /\ sinceFollow = 0

\* C10: any two consecutive commands that move the observer (camera
\* transform, re-centre, behind-player teleport, showcase teleport, attach)
\* are at least the minimum spacing apart.
C10_AllCommandsSpaced ==
  [][ev'.cmd # "none" => sinceMove >= MIN_COMMAND_SPACING]_vars

\* C11: the distance in the follow command lies within
\* [MIN_FOLLOW_DISTANCE, MAX_FOLLOW_DISTANCE], for every count of solid
\* samples and every configured base distance.  (The program configures no
\* bounds for the height.)
C11_DistanceWithinBounds ==
  shot # NoShot =>
    /\ shot.distance >= MIN_FOLLOW_DISTANCE * Scale
    /\ shot.distance <= MAX_FOLLOW_DISTANCE * Scale

\* C12: a tracking tick that finds the subject list empty while a subject is
\* followed clears the current subject, leaves no follow timer live, makes
\* showcase mode active with its cursor at 0 and moves the observer to the
\* first configured showcase location.
C12_EmptyListEntersShowcase ==
  [][ev'.name = "tick" /\ currentTarget # None /\ Len(Players) = 0
       /\ Len(locations) > 0 =>
        /\ currentTarget' = None
        /\ OfKind(timers', "follow") = {}
        /\ showcaseActive'
        /\ showcaseIndex' = 0
        /\ ev'.cmd = "showcase" /\ ev'.loc = 1
     ]_vars

\* C13: while showcase mode is active the observer stays at each location
\* for that location's own configured duration, or for the default duration
\* when it has none: when the showcase timer moves the observer on, the time
\* since it was moved to the location it leaves is that location's duration.
C13_DwellIsPerLocation ==
  [][ev'.name = "showcase" /\ ev'.cmd = "showcase" /\ Len(locations) > 0 =>
        sinceMove = Dwell(showcaseIndex)
     ]_vars

\* C14: while the subject list is empty the showcase goes through the
\* configured locations in order: every showcase timer tick advances the
\* cursor by one, wrapping after the last location, and moves the observer
\* to the location of the new cursor; and the next visit always comes, the
\* observer never being left at a location for longer than the longest
\* configured stay.
C14_ShowcaseCycles ==
  [][Len(locations) > 0 =>
        /\ ev'.name = "showcase" =>
              /\ showcaseIndex' = (showcaseIndex + 1) % Len(locations)
              /\ ev'.cmd = "showcase"
              /\ ev'.loc = showcaseIndex' + 1
        /\ showcaseActive' /\ Len(Players) = 0 =>
              \E i \in 0..(Len(locations) - 1) : sinceMove' <= Dwell(i)
     ]_vars

\* C15: with an empty list of showcase locations no repeating showcase
\* timer is ever scheduled: no showcase timer is live in any state.
C15_NoTimerForEmptyList ==
  Len(locations) = 0 => OfKind(timers, "showcase") = {}

\* C16: a follow timer and a showcase timer are never live together, also
\* across reconnects: no showcase timer is live while a subject is current,
\* and a showcase repositioning command is sent only by a handler that
\* leaves showcase mode active and no subject current, so none is sent
\* between the tick that takes up a subject and the tick that finds the list
\* empty again.
C16_FollowAndShowcaseTimersExclusive ==
  /\ ~(OfKind(timers, "follow") # {} /\ OfKind(timers, "showcase") # {})
  /\ currentTarget # None => OfKind(timers, "showcase") = {}
  /\ ev.cmd = "showcase" => showcaseActive /\ currentTarget = None

\* a tick has taken up a subject after a showcase tour that had moved on to
\* its second location: the follow timer runs and the showcase timer is gone
C16_Witness ==
  /\ rev = "cam" /\ ~spectate
  /\ ev.name = "tick" /\ ev.switched
  /\ showcaseIndex = 1
  /\ currentTarget # None
  /\ OfKind(timers, "follow") # {}
  /\ OfKind(timers, "showcase") = {}

C18_RotationPicksAnother ==
  [][ev'.name = "tick" /\ ev'.switched /\ Len(Players) > 1
       /\ currentTarget \in SeqToSet(Players) =>
        /\ playerRotationIndex' = (playerRotationIndex + 1) % Len(Players)
        /\ currentTarget' # currentTarget
     ]_vars

\* C19: a follow command (camera transform, re-centre, behind-player
\* teleport) is sent only for the subject that is current when it is sent:
\* a follow timer sends one only if the subject it was started for is the
\* current one, and a tracking tick sends one only for the subject it has
\* just made current.
C19_FollowCommandsOnlyForCurrent ==
  [][ev'.cmd \in {"camera", "recentre", "behind"} =>
        /\ ev'.name \in {"follow", "tick"}
        /\ ev'.name = "follow" =>
              \A t \in Due("follow") :
                 currentTarget # None /\ t.who = currentTarget
        /\ ev'.name = "tick" =>
              /\ ev'.switched /\ currentTarget' # None
              /\ \A t \in OfKind(timers', "follow") : t.who = currentTarget'
     ]_vars

\* a follow timer has sent a teleport behind the current subject while
\* another subject is online
C19_Witness ==
  /\ rev = "bot" /\ ~spectate
  /\ ev.name = "follow" /\ ev.cmd = "behind"
  /\ currentTarget # None
  /\ Len(Players) = 2
  /\ \E t \in OfKind(timers, "follow") : t.who = currentTarget

\* C20: in first-person mode (USE_SPECTATE, CAMERA_MODE = 'spectate') the
\* Follow Driver only sends the attach command: every switch sends exactly
\* the attach command, for the subject it makes current, the attach command
\* is sent by nothing but a switch, and no follow timer is ever live.
C20_SpectateOnlyAttaches ==
  [][spectate =>
        /\ OfKind(timers', "follow") = {} /\ followUpdateInterval' = Null
        /\ ev'.name = "tick" /\ ev'.switched =>
              ev'.cmd = "spectate" /\ currentTarget' # None
        /\ ev'.cmd \in FollowCmds =>
              ev'.cmd = "spectate" /\ ev'.name = "tick" /\ ev'.switched
     ]_vars

\* a rotation in first-person mode has sent the attach command
C20_Witness ==
  /\ spectate
  /\ ev.name = "tick" /\ ev.switched /\ ev.reason = "rotation"
  /\ ev.cmd = "spectate"
  /\ currentTarget # None
  /\ OfKind(timers, "follow") = {}

\* C21: with several players online the player a switch selects is the most
\* active of them: none of the players online has a greater activity than
\* the one that becomes current.
C21_MostActiveSelected ==
  [][ev'.name = "tick" /\ ev'.switched /\ Len(Players) > 1 =>
        \A n \in SeqToSet(Players) :
           calculateActivity(n) <= calculateActivity(currentTarget')
     ]_vars

\* C22: in a session that stays up, with two subjects who stay online, a
\* switch decision comes no later than SWITCH_INTERVAL + CHECK_INTERVAL
\* after the one before it, so that no subject is followed for longer.
C22_RotationWithinBound ==
  currentTarget # None /\ Len(Players) >= 2 =>
    sinceSwitch <= SWITCH_INTERVAL + CHECK_INTERVAL

\* C23: two switch decisions are at least CHECK_INTERVAL apart, also when a
\* further spawn or a reconnect has started the tracking loop anew between
\* them.
C23_SwitchesOneCheckApart ==
  [][ev'.name = "tick" /\ ev'.switched => sinceSwitch >= CHECK_INTERVAL]_vars

\* a rotation in a reconnected session, whose tracking loop was started anew
\* after the switches of the session before
C23_Witness ==
  /\ Reconnected
  /\ ev.name = "tick" /\ ev.switched /\ ev.reason = "rotation"
  /\ sinceSwitch = 0
  /\ Cardinality(OfKind(timers, "tracking")) = 1

\* C24: without MINECRAFT_USERNAME or without AZURE_CLIENT_ID the process
\* exits with a failure status before a session with the server is opened
\* and before a tracking, follow or showcase timer is created.
C24_MissingConfigurationIsFatal ==
  ~username \/ ~azureClientId =>
    /\ proc \in {"loading", "exited"}
    /\ ev.name = "load" => proc = "exited"
    /\ bots = << >>
    /\ timers = {}
    /\ \A k \in LoopKinds : HandleOf(k) = Null

\* the process has exited for want of the client id alone
C24_Witness ==
  /\ username /\ ~azureClientId
  /\ ev.name = "load"
  /\ proc = "exited"
  /\ bots = << >>

\* C25: on SIGINT or SIGTERM the tracking, follow and showcase timers are
\* cancelled before the session is asked to terminate, the session the
\* variable bot refers to is asked to terminate, and the process exits with
\* status 0; nothing of the process runs after the handler.
C25_ShutdownCancelsThenQuits ==
  [][/\ proc # "stopped"
     /\ ev'.name = "shutdown" =>
          /\ ev'.reason = "cancelled"
          /\ \A b \in Bots :
               bots[b].cur /\ bots[b].st = "live" => bots'[b].st = "ended"
          /\ proc' = "stopped"
          /\ timers' = {}
    ]_vars

\* the signal came while a subject was followed in third-person mode
C25_Witness ==
  /\ proc = "stopped"
  /\ ev.name = "shutdown" /\ ev.reason = "cancelled"
  /\ currentTarget # None /\ ~spectate
  /\ \E b \in Bots : bots[b].cur /\ bots[b].st = "ended"

\* C26: a tracking tick logs the player-list line if and only if the set of
\* names online other than the observer differs from the set in the line
\* logged last (at first the empty one); the same names in another order
\* produce no line.
C26_PlayerListLoggedOnChange ==
  [][ev'.name = "tick" =>
        /\ ev'.logged <=> SeqToSet(Players) # loggedNames
        /\ loggedNames' = SeqToSet(Players)
     ]_vars

\* a tick found the two names of the last line in another order than the
\* sorted one and logged nothing
C26_Witness ==
  /\ ev.name = "tick" /\ ~ev.logged
  /\ Len(Players) = 2 /\ Players[1] > Players[2]
  /\ loggedNames = SeqToSet(Players)

\* C27: when every sampled offset is solid the camera distance is at most
\* half of the configured base distance, or is the minimum distance when
\* half of the base is below the minimum, for every configured base.
C27_EnclosedDistanceAtMostHalf ==
  /\ shot # NoShot
  /\ targetPlayer.entity
  /\ \A i \in 1..Len(offsets) : blocks[i] = "solid"
  => \/ 2 * shot.distance <= baseDistance
     \/ /\ baseDistance < 2 * MIN_FOLLOW_DISTANCE * Scale
        /\ shot.distance = MIN_FOLLOW_DISTANCE * Scale

\* a fully enclosed subject with a base distance whose half is below the
\* minimum: the command carries the minimum
C27_Witness ==
  /\ shot # NoShot
  /\ targetPlayer.entity
  /\ \A i \in 1..Len(offsets) : blocks[i] = "solid"
  /\ baseDistance < 2 * MIN_FOLLOW_DISTANCE * Scale
  /\ shot.distance = MIN_FOLLOW_DISTANCE * Scale

\* C28: in third-person mode a Follow Driver command sent while the subject
\* has no entity in range is a re-centre, sent more than 3000 ms after the
\* Follow Driver's last command; no camera transform is sent for that update.
C28_UnresolvedOnlyRecentres ==
  [][/\ ~spectate
     /\ ev'.cmd \in {"camera", "behind", "recentre"}
     /\ currentTarget' \notin entities
     => /\ ev'.cmd = "recentre"
        /\ sinceFollow > RECENTRE_SPACING
    ]_vars

\* the surroundings with an empty block wherever the query failed
FailedAsEmpty ==
  [i \in 1..Len(offsets) |->
     IF blocks[i] \in {"null", "throws"} THEN "empty" ELSE blocks[i]]

\* C29: a sample whose query throws or returns no block counts as non-solid:
\* the command is built, and its distance is the one computed for the same
\* surroundings with an empty block at every failed sample.
C29_FailedSampleIsNonSolid ==
  /\ shot # NoShot
  /\ \E i \in 1..Len(offsets) : blocks[i] \in {"null", "throws"}
  => /\ shot.distance = followCommand(targetPlayer, FailedAsEmpty).distance
     /\ shot.distance \in Nat

\* a subject in range with one sample that throws and one without a block,
\* among solid ones: the command was built
C29_Witness ==
  /\ shot # NoShot
  /\ targetPlayer.entity
  /\ \E i \in 1..Len(offsets) : blocks[i] = "null"
  /\ \E i \in 1..Len(offsets) : blocks[i] = "throws"
  /\ \E i \in 1..Len(offsets) : blocks[i] = "solid"
  /\ shot.distance < MAX_FOLLOW_DISTANCE * Scale

\* C30: after a tracking tick that found players in the list the current
\* subject is one of them; after a tick that found the list empty there is
\* no current subject.
C30_SubjectIsListed ==
  [][ev'.name = "tick" =>
       IF Len(Players) = 0
       THEN currentTarget' = None
       ELSE currentTarget' \in SeqToSet(Players)]_vars

\* the tick found that its subject had left while another player was
\* listed, and follows that player
C30_Witness ==
  /\ ev.name = "tick" /\ ev.reason = "target left"
  /\ currentTarget \in SeqToSet(Players)

\* C31: in the camera-mode revision with showcase locations configured,
\* after every tracking tick showcaseActive is true exactly when a showcase
\* timer is live.
C31_ShowcaseFlagMatchesTimer ==
  [][rev = "cam" /\ Len(locations) > 0 /\ ev'.name = "tick" =>
       (showcaseActive' <=> OfKind(timers', "showcase") # {})]_vars

\* the Follow Driver has been started in a session opened by a reconnect:
\* its timer is live, or the attach command has just been sent
FollowResumed ==
  /\ Reconnected
  /\ \/ OfKind(timers, "follow") # {}
     \/ ev.cmd = "spectate"

\* C32: after a session is lost while a player is followed and that player
\* stays online, the Follow Driver is eventually started again in the
\* re-established session, also when the player is the only one online.
C32_FollowResumesAfterReconnect ==
  (ev.name = "end" /\ currentTarget # None) ~> FollowResumed

\* sessions that are up or being opened, and timers that will open one
SessionsAndAttempts ==
  Cardinality({b \in Bots : bots[b].st \in {"connecting", "live"}})
  + Cardinality(OfKind(timers, "reconnect") \cup OfKind(timers, "kickRetry"))

\* C33: at any time at most one session is live, being established, or
\* scheduled to be established: the loss of a session, a throttled kick
\* followed by 'end' included, leads to one reconnect attempt.
C33_OneSessionOrAttempt == SessionsAndAttempts <= 1

\* the session the variable bot refers to has ended and no new one has
\* taken its place
SessionEnded == \E b \in Bots : bots[b].cur /\ bots[b].st = "ended"

\* C34: while the session has ended and none has been established in its
\* place no tracking, follow or showcase timer is live and no handler sends
\* a command, however the two-second delay of 'spawn' falls around 'end'.
C34_QuietWhileDisconnected ==
  SessionEnded =>
    /\ \A k \in LoopKinds : OfKind(timers, k) = {}
    /\ ev.cmd = "none"

\* C35: when a session has been established (first connection, reconnect
\* after 'end', retry after a throttling kick) the count of consecutive
\* failures is 0.
C35_FailuresClearedOnConnect ==
  [][(\E b \in Bots : Login(b)) => consecutiveFailures' = 0]_vars

\* the subject listed after n, the head of the list coming after its end
Successor(P, n) ==
  P[((CHOOSE i \in 1..Len(P) : P[i] = n) % Len(P)) + 1]

\* C36: in a session that stays up with a constant list of n >= 2 subjects
\* every rotation switch goes to the subject listed after the current one,
\* in cyclic order, so that any n consecutive rotation switches make each
\* of the n subjects the current one once.
C36_RotationInListOrder ==
  [][/\ ev'.name = "tick" /\ ev'.switched /\ ev'.reason = "rotation"
     /\ Len(Players) >= 2
     => currentTarget' = Successor(Players, currentTarget)]_vars

\* a rotation has gone from the last subject of the list back to the first
C36_Witness ==
  /\ ev.name = "tick" /\ ev.switched /\ ev.reason = "rotation"
  /\ Len(Players) >= 2
  /\ currentTarget = Players[1]
  /\ playerRotationIndex = 0

\* C37: when the callback of a follow timer runs, the current subject is
\* the one the timer was started for, so the callback does not take its
\* stale-timer branch and the timer stays live.
C37_FollowTimerIsForCurrent ==
  [][ev'.name = "follow" =>
       /\ \A t \in Due("follow") :
            currentTarget # None /\ t.who = currentTarget
       /\ OfKind(timers', "follow") # {}]_vars

\* a follow timer has run for the subject a rotation switched to
C37_Witness ==
  /\ ev.name = "follow" /\ ev.cmd \in {"behind", "camera"}
  /\ Len(Players) = 2
  /\ \E t \in OfKind(timers, "follow") : t.who = currentTarget

\* C38: in third-person mode of the camera-mode revision, with the camera
\* update interval at least the minimum spacing of 500 ms, every run of the
\* follow timer for a subject with an entity in range sends the camera
\* transform: the rate limiter drops no scheduled update.
C38_NoScheduledUpdateDropped ==
  [][/\ rev = "cam" /\ ~spectate
     /\ CAMERA_UPDATE_INTERVAL >= MIN_COMMAND_SPACING
     /\ ev'.name = "follow"
     /\ \A t \in Due("follow") : t.who \in entities
     => ev'.cmd = "camera"]_vars

====
